---- MODULE Spec2Model ----
(***************************************************************************)
(* A model of the crypto arbitrage monitor (arb_monitor.py) and of the     *)
(* Kalshi trading client it uses (kalshi.py).                              *)
(*                                                                         *)
(* Python values are tagged records: None, numbers (exact rationals n/d),  *)
(* strings (sequences of tokens), and "absent" for a key a JSON object     *)
(* does not carry.  A call's outcome is Return(v) or Raise(e).             *)
(***************************************************************************)
EXTENDS Integers, Sequences, FiniteSets, TLC

VARIABLES
    pc,       \* position of main() in the polling cycle
    feed,     \* what the price feed answers in this cycle
    api,      \* what the trading API answers, per market series
    prices,   \* the dict get_crypto_prices returned
    markets,  \* the dict markets_15m, as built so far
    result,   \* what analyze_arbitrage / main produced
    trace,    \* the externally visible events of the cycle, in order
    call,     \* the unit call under way (client and valuation specifications)
    http,     \* the HTTP requests that call dispatched, in order
    stderr,   \* what that call wrote to the error stream
    ret       \* that call's outcome

vars == <<pc, feed, api, prices, markets, result, trace, call, http, stderr, ret>>

cycleVars == <<pc, feed, api, prices, markets, result, trace>>
unitVars == <<call, http, stderr, ret>>

(***************************************************************************)
(* Bounds of the model.                                                    *)
(***************************************************************************)
MaxMarkets == 2   \* markets listed in one series response
MaxSub == 4       \* tokens of an enumerated subtitle
MaxPath == 3      \* tokens of an enumerated request path

(***************************************************************************)
(* Python values.                                                          *)
(***************************************************************************)
None == [t |-> "none"]
Absent == [t |-> "absent"]
Rat(n, d) == [t |-> "num", n |-> n, d |-> d]
Num(n) == Rat(n, 1)
Str(s) == [t |-> "str", s |-> s]

IsNum(v) == v.t = "num"
IsStr(v) == v.t = "str"

Return(v) == [kind |-> "return", value |-> v]
Raise(e) == [kind |-> "raise", error |-> e]
Err(type) == [type |-> type]
HTTPError(status) == [type |-> "HTTPError", status |-> status]

\* dict.get(key, default) on a JSON object whose field may be absent
Get(v, default) == IF v = Absent THEN default ELSE v

\* a = b on rationals with positive denominators
RatEq(a, b) == a.n * b.d = b.n * a.d

\* n/d for an integer quote, as Python's int
IntOf(v) == v.n \div v.d

(***************************************************************************)
(* Strings are sequences of tokens.  A token is a character, or a piece    *)
(* of text that no operation of the program looks inside: PriceToBeat is   *)
(* the text "Price to beat:", "x" is any other text without '$' or ','.    *)
(***************************************************************************)
PriceToBeat == "Price to beat:"
Digits == {"0", "1", "2", "3", "4", "5", "6", "7", "8", "9"}

DigitVal(c) ==
    CASE c = "0" -> 0 [] c = "1" -> 1 [] c = "2" -> 2 [] c = "3" -> 3
      [] c = "4" -> 4 [] c = "5" -> 5 [] c = "6" -> 6 [] c = "7" -> 7
      [] c = "8" -> 8 [] c = "9" -> 9

\* the first position of tok in s, 0 when it does not occur
RECURSIVE IndexFrom(_, _, _)
IndexFrom(s, tok, i) ==
    IF i > Len(s) THEN 0
    ELSE IF s[i] = tok THEN i
    ELSE IndexFrom(s, tok, i + 1)

IndexOf(s, tok) == IndexFrom(s, tok, 1)

\* str.split(tok): the pieces between the occurrences of tok
RECURSIVE Split(_, _)
Split(s, tok) ==
    LET i == IndexOf(s, tok)
    IN  IF i = 0 THEN <<s>>
        ELSE <<SubSeq(s, 1, i - 1)>> \o Split(SubSeq(s, i + 1, Len(s)), tok)

\* str.replace(tok, "")
Remove(s, tok) == SelectSeq(s, LAMBDA c : c # tok)

\* str.strip() of blanks
RECURSIVE LStrip(_)
LStrip(s) == IF s # <<>> /\ Head(s) = " " THEN LStrip(Tail(s)) ELSE s

RECURSIVE RStrip(_)
RStrip(s) ==
    IF s # <<>> /\ s[Len(s)] = " " THEN RStrip(SubSeq(s, 1, Len(s) - 1)) ELSE s

Strip(s) == RStrip(LStrip(s))

RECURSIVE Pow10(_)
Pow10(k) == IF k = 0 THEN 1 ELSE 10 * Pow10(k - 1)

RECURSIVE DigitsValue(_)
DigitsValue(s) ==
    IF s = <<>> THEN 0
    ELSE 10 * DigitsValue(SubSeq(s, 1, Len(s) - 1)) + DigitVal(s[Len(s)])

\* float(text): blanks around the literal are skipped; the literal is digits with
\* at most one '.', and at least one digit; anything else is a ValueError
Float(s) ==
    LET body == Strip(s)
        dot == IndexOf(body, ".")
        ds == Remove(body, ".")
        wellFormed ==
            /\ ds # <<>>
            /\ \A i \in 1..Len(ds) : ds[i] \in Digits
            /\ Len(body) - Len(ds) <= 1
    IN  IF ~wellFormed THEN Raise(Err("ValueError"))
        ELSE Return(Rat(DigitsValue(ds),
                        IF dot = 0 THEN 1 ELSE Pow10(Len(body) - dot)))

\* arb_monitor.py 55-60: the strike of a subtitle; a subtitle that is not a
\* string makes the 'in' test raise TypeError, which the inner try does not cover
ParseStrike(subtitle) ==
    IF ~IsStr(subtitle) THEN Raise(Err("TypeError"))
    ELSE IF IndexOf(subtitle.s, PriceToBeat) = 0 THEN Return(None)
    ELSE LET pieces == Split(subtitle.s, "$")
         IN  IF Len(pieces) < 2 THEN Return(None)
             ELSE LET f == Float(Remove(pieces[2], ","))
                  IN  IF f.kind = "raise" THEN Return(None) ELSE f

(***************************************************************************)
(* calculate_fair_value, on exact rationals.  With spot = sn/sd and        *)
(* strike = kn/kd, 50 + pct_diff * 15 is N/D for                           *)
(*   N = 50*sd*kn + 1500*(sn*kd - kn*sd),  D = sd*kn,                      *)
(* and with P = sn*kd - kn*sd the cap N/D >= 95 is 100*P >= 3*D and the    *)
(* floor N/D <= 5 is 100*P <= -3*D.                                        *)
(***************************************************************************)
\* round(n/d), d > 0, halves to the even neighbour
Round(n, d) ==
    LET q == n \div d
        r == n - q * d
    IN  IF 2 * r < d THEN q
        ELSE IF 2 * r > d THEN q + 1
        ELSE IF q % 2 = 0 THEN q ELSE q + 1

calculate_fair_value(current_price, strike_price, time_to_expiry_minutes) ==
    IF strike_price = None \/ current_price = None THEN Return(None)
    ELSE IF strike_price.n = 0 THEN Raise(Err("ZeroDivisionError"))
    ELSE LET sgn == IF strike_price.n < 0 THEN -1 ELSE 1
             P == sgn * (current_price.n * strike_price.d
                           - strike_price.n * current_price.d)
             D == sgn * current_price.d * strike_price.n
             N == 50 * D + 1500 * P
         IN  IF P > 0
             THEN Return(Num(IF 100 * P >= 3 * D THEN 95 ELSE Round(N, D)))
             ELSE Return(Num(IF 100 * P <= -3 * D THEN 5 ELSE Round(N, D)))

(***************************************************************************)
(* kalshi.py: the client.  An HTTP answer is a transport failure or a      *)
(* status with a body text: empty, not JSON, or JSON with its value.       *)
(***************************************************************************)
key_id == "KEY-ID"
base_url == "https://api.example/"

Transport == [kind |-> "transport"]
Http(status, text) == [kind |-> "http", status |-> status, text |-> text]
EmptyText == [t |-> "empty"]
Garbage == [t |-> "garbage"]
Json(v) == [t |-> "json", v |-> v]

\* str.upper() on the method names the model uses
Upper(method) ==
    CASE method \in {"GET", "get", "Get"} -> "GET"
      [] method \in {"POST", "post"} -> "POST"
      [] method \in {"DELETE", "delete"} -> "DELETE"
      [] method \in {"PUT", "put"} -> "PUT"

\* kalshi.py 34-45: RSA-PSS over the message with a fresh random salt
_sign(text, salt) == [signed |-> text, salt |-> salt]

\* a variant that signs the path with its query string
SignsFullPath(method, path, now, salt) ==
    LET timestamp == ToString(now)
        msg == <<timestamp, Upper(method)>> \o path
    IN  [key |-> key_id, timestamp |-> timestamp,
         signature |-> _sign(msg, salt), content_type |-> "application/json"]

\* kalshi.py 47-60; now is int(time.time() * 1000)
_headers(method, path, now, salt) ==
    LET timestamp == ToString(now)
        path_clean == Split(path, "?")[1]
        msg == <<timestamp, Upper(method)>> \o path_clean
    IN  [key |-> key_id, timestamp |-> timestamp,
         signature |-> _sign(msg, salt), content_type |-> "application/json"]

\* requests' Response.ok: raise_for_status raises for 400..599 only
Ok(status) == ~(400 <= status /\ status < 600)

\* kalshi.py 76-79: what _request makes of the answer
Classify(response) ==
    IF response.kind = "transport"
    THEN [stderr |-> <<>>, out |-> Raise(Err("ConnectionError"))]
    ELSE IF ~Ok(response.status)
    THEN [stderr |-> <<[status |-> response.status, text |-> response.text]>>,
          out |-> Raise(HTTPError(response.status))]
    ELSE IF response.text = EmptyText
    THEN [stderr |-> <<>>, out |-> Return([t |-> "dict"])]
    ELSE IF response.text = Garbage
    THEN [stderr |-> <<>>, out |-> Raise(Err("JSONDecodeError"))]
    ELSE [stderr |-> <<>>, out |-> Return(response.text.v)]

\* a retrying variant of _request: a failed attempt is sent again
RequestWithRetry(method, path, data, now, salt, response) ==
    LET verb == Upper(method)
        req == [verb |-> verb, url |-> <<base_url>> \o path,
                headers |-> _headers(method, path, now, salt),
                data |-> IF verb = "DELETE" THEN None ELSE data]
        c == Classify(response)
    IN  IF verb \notin {"GET", "POST", "DELETE"}
        THEN [http |-> <<>>, stderr |-> <<>>, out |-> Raise(Err("ValueError"))]
        ELSE [http |-> IF c.out.kind = "raise" THEN <<req, req>> ELSE <<req>>,
              stderr |-> c.stderr, out |-> c.out]

\* kalshi.py 62-79: one call of _request
_request(method, path, data, now, salt, response) ==
    LET verb == Upper(method)
        req == [verb |-> verb, url |-> <<base_url>> \o path,
                headers |-> _headers(method, path, now, salt),
                data |-> IF verb = "DELETE" THEN None ELSE data]
        c == Classify(response)
    IN  IF verb \notin {"GET", "POST", "DELETE"}
        THEN [http |-> <<>>, stderr |-> <<>>, out |-> Raise(Err("ValueError"))]
        ELSE [http |-> <<req>>, stderr |-> c.stderr, out |-> c.out]

OrdersPath == <<"/trade-api/v2/portfolio/orders">>

\* kalshi.py 136-145: the order place_order builds
Order(ticker, side, action, count, type, price) ==
    LET priced == type = "limit" /\ price # None
    IN  [ticker |-> ticker, side |-> side, action |-> action, count |-> count,
         type |-> type,
         yes_price |-> IF ~priced THEN Absent
                       ELSE IF side = "yes" THEN price ELSE None,
         no_price |-> IF ~priced THEN Absent
                      ELSE IF side = "no" THEN price ELSE None]

\* kalshi.py 118-147
place_order(ticker, side, action, count, type, price, now, salt, response) ==
    _request("POST", OrdersPath,
             Order(ticker, side, action, count, type, price), now, salt, response)

\* kalshi.py 91-93
get_orders(status, now, salt, response) ==
    _request("GET", OrdersPath \o <<"?", status>>, None, now, salt, response)

\* kalshi.py 149-151
cancel_order(order_id, now, salt, response) ==
    _request("DELETE", OrdersPath \o <<"/", order_id>>, None, now, salt, response)

(***************************************************************************)
(* Inputs of the client calls.                                             *)
(***************************************************************************)
\* all sequences over S of length lo..hi
SeqsUpTo(S, lo, hi) == UNION {[1..k -> S] : k \in lo..hi}

Methods == {"GET", "get", "POST", "DELETE", "PUT"}
PathTokens == {"/x", "?", "a=1"}
Paths == SeqsUpTo(PathTokens, 1, MaxPath)
Statuses == {200, 304, 404, 500}
Texts == {EmptyText, Garbage, Json([t |-> "dict", id |-> "r1"])}
Responses == {Transport} \cup {Http(st, tx) : st \in Statuses, tx \in Texts}
Clock == {1700000000, 1700000001}
Salts == {"s1", "s2"}

Sides == {"yes", "no", "maybe"}
Actions == {"buy", "sell", "hold"}
Counts == {0, 1}
Types == {"market", "limit"}
Prices == {None, Num(0), Num(1), Num(99), Num(100)}

Idle == [fn |-> "idle"]
NoRet == [kind |-> "none"]

cycleOff ==
    /\ pc = "off" /\ feed = None /\ api = None /\ prices = None
    /\ markets = None /\ result = NoRet /\ trace = <<>>

unitOff == call = Idle /\ http = <<>> /\ stderr = <<>> /\ ret = NoRet

\* the state after KalshiClient() (kalshi.py 20-32), before any call
InitClient == cycleOff /\ unitOff

\* the call's effects, as the caller and the network see them
Finish(c, r) ==
    /\ call' = c
    /\ http' = r.http
    /\ stderr' = r.stderr
    /\ ret' = r.out
    /\ UNCHANGED cycleVars

CallRequest ==
    /\ call = Idle
    /\ \E method \in Methods, path \in Paths, response \in Responses,
          now \in Clock, salt \in Salts :
           Finish([fn |-> "_request", method |-> method, path |-> path,
                   now |-> now, response |-> response],
                  _request(method, path, None, now, salt, response))

CallPlaceOrder ==
    /\ call = Idle
    /\ \E side \in Sides, action \in Actions, count \in Counts, type \in Types,
          price \in Prices, response \in Responses, now \in Clock, salt \in Salts :
           Finish([fn |-> "place_order", method |-> "POST", path |-> OrdersPath,
                   side |-> side, action |-> action, count |-> count,
                   type |-> type, price |-> price,
                   now |-> now, response |-> response],
                  place_order("T", side, action, count, type, price,
                              now, salt, response))

CallGetOrders ==
    /\ call = Idle
    /\ \E status \in {"status=resting", "status=executed"}, response \in Responses,
          now \in Clock, salt \in Salts :
           Finish([fn |-> "get_orders", method |-> "GET",
                   path |-> OrdersPath \o <<"?", status>>,
                   now |-> now, response |-> response],
                  get_orders(status, now, salt, response))

CallCancelOrder ==
    /\ call = Idle
    /\ \E order_id \in {"o1", "o2"}, response \in Responses,
          now \in Clock, salt \in Salts :
           Finish([fn |-> "cancel_order", method |-> "DELETE",
                   path |-> OrdersPath \o <<"/", order_id>>,
                   now |-> now, response |-> response],
                  cancel_order(order_id, now, salt, response))

NextClient == CallRequest \/ CallPlaceOrder \/ CallGetOrders \/ CallCancelOrder

SpecClient == InitClient /\ [][NextClient]_vars

(***************************************************************************)
(* arb_monitor.py: the polling cycle.                                      *)
(*                                                                         *)
(* A listed market is [ticker, yes_bid, yes_ask, sub]; the fields the      *)
(* analysis never reads (no_bid, no_ask, close_time, volume) are left out. *)
(* A dict is a function from its keys.                                     *)
(***************************************************************************)
Coins == <<"btc", "eth">>
SeriesOf(coin) == IF coin = "btc" THEN "KXBTC15M" ELSE "KXETH15M"
ErrorKey(coin) == IF coin = "btc" THEN "btc_error" ELSE "eth_error"
UpperCoin(coin) == IF coin = "btc" THEN "BTC" ELSE "ETH"

EmptyDict == [k \in {} |-> None]
Put(d, k, v) == [x \in DOMAIN d \cup {k} |-> IF x = k THEN v ELSE d[x]]

\* arb_monitor.py 15-38: the feed's answer as the prices dict; any failure of
\* the request or of reading its JSON becomes {"error": ...}
get_crypto_prices(answer) ==
    IF answer.kind = "error" THEN [error |-> Str(<<"feed failed">>)]
    ELSE [btc |-> Get(answer.btc, None), eth |-> Get(answer.eth, None)]

\* a test that lets a failed feed through
HasErrorNever(p) == FALSE

\* arb_monitor.py 231
HasError(p) == "error" \in DOMAIN p

\* arb_monitor.py 49: the liquidity test; comparing None or text with a number
\* raises TypeError, and 'or' skips the ask when the bid already passes
FilterPass(m) ==
    LET bid == Get(m.yes_bid, Num(0))
        ask == Get(m.yes_ask, Num(0))
    IN  IF ~IsNum(bid) THEN Raise(Err("TypeError"))
        ELSE IF bid.n > 0 THEN Return(TRUE)
        ELSE IF ~IsNum(ask) THEN Raise(Err("TypeError"))
        ELSE Return(ask.n < 100 * ask.d)

\* arb_monitor.py 62-72
Entry(m, strike) ==
    [ticker |-> m.ticker, strike |-> strike,
     yes_bid |-> Get(m.yes_bid, Num(0)), yes_ask |-> Get(m.yes_ask, Num(0)),
     subtitle |-> Get(m.sub, Str(<<>>))]

\* arb_monitor.py 48-73: the loop over the listed markets, from the i-th on
RECURSIVE ScanMarkets(_, _)
ScanMarkets(ms, i) ==
    IF i > Len(ms) THEN Return(None)
    ELSE LET pass == FilterPass(ms[i])
         IN  IF pass.kind = "raise" THEN pass
             ELSE IF ~pass.value THEN ScanMarkets(ms, i + 1)
             ELSE LET strike == ParseStrike(Get(ms[i].sub, Str(<<>>)))
                  IN  IF strike.kind = "raise" THEN strike
                      ELSE Return(Entry(ms[i], strike.value))

SeriesPath(series) == <<"/trade-api/v2/markets", "?", series, "&limit=5&status=open">>

\* a variant whose handler drops what the earlier series gave
FetchOneWipes(mk, coin, response) ==
    LET r == _request("GET", SeriesPath(SeriesOf(coin)), None, 1, "s1", response)
        resp == r.out.value
        found == IF resp.t # "dict" THEN Raise(Err("AttributeError"))
                 ELSE IF "markets" \notin DOMAIN resp THEN Return(None)
                 ELSE ScanMarkets(resp.markets, 1)
    IN  IF r.out.kind = "raise" THEN Put(EmptyDict, ErrorKey(coin), r.out.error)
        ELSE IF found.kind = "raise" THEN Put(mk, ErrorKey(coin), found.error)
        ELSE IF found.value = None THEN mk
        ELSE Put(mk, coin, found.value)

\* arb_monitor.py 46-75: one turn of the loop over the series
FetchOne(mk, coin, response) ==
    LET r == _request("GET", SeriesPath(SeriesOf(coin)), None, 1, "s1", response)
        resp == r.out.value
        found == IF resp.t # "dict" THEN Raise(Err("AttributeError"))
                 ELSE IF "markets" \notin DOMAIN resp THEN Return(None)
                 ELSE ScanMarkets(resp.markets, 1)
    IN  IF r.out.kind = "raise" THEN Put(mk, ErrorKey(coin), r.out.error)
        ELSE IF found.kind = "raise" THEN Put(mk, ErrorKey(coin), found.error)
        ELSE IF found.value = None THEN mk
        ELSE Put(mk, coin, found.value)

\* arb_monitor.py 41-77 as a whole
get_kalshi_15m_markets(answers) ==
    FetchOne(FetchOne(EmptyDict, "btc", answers.btc), "eth", answers.eth)

EDGE_BUFFER == 5

\* arb_monitor.py 137-177: what one asset adds to the opportunities; None or
\* text in a quote makes the arithmetic raise TypeError
AnalyzeCoin(p, mk, coin) ==
    IF coin \notin DOMAIN mk \/ coin \notin DOMAIN p THEN Return(<<>>)
    ELSE IF p[coin] = None THEN Return(<<>>)
    ELSE IF mk[coin].strike = None THEN Return(<<>>)
    ELSE LET market == mk[coin]
             fv == calculate_fair_value(p[coin], market.strike, 15)
         IN  IF fv.kind = "raise" THEN fv
             ELSE IF fv.value = None THEN Return(<<>>)
             ELSE IF ~IsNum(market.yes_ask) THEN Raise(Err("TypeError"))
             ELSE LET fair_value == IntOf(fv.value)
                      yes_ask == IntOf(market.yes_ask)
                      yes_bid == IntOf(market.yes_bid)
                      buy == IF fair_value > yes_ask + EDGE_BUFFER
                             THEN <<[type |-> "BUY_YES", coin |-> UpperCoin(coin),
                                     ticker |-> market.ticker,
                                     fair_value |-> fair_value,
                                     price |-> yes_ask,
                                     edge |-> fair_value - yes_ask]>>
                             ELSE <<>>
                      sell == IF fair_value < yes_bid - EDGE_BUFFER
                              THEN <<[type |-> "SELL_YES", coin |-> UpperCoin(coin),
                                      ticker |-> market.ticker,
                                      fair_value |-> fair_value,
                                      price |-> yes_bid,
                                      edge |-> yes_bid - fair_value]>>
                              ELSE <<>>
                  IN  Return(buy \o sell)

\* arb_monitor.py 129-179: the loop over btc and eth, from the i-th on
RECURSIVE AnalyzeFrom(_, _, _, _)
AnalyzeFrom(p, mk, i, opportunities) ==
    IF i > Len(Coins) THEN Return(opportunities)
    ELSE LET one == AnalyzeCoin(p, mk, Coins[i])
         IN  IF one.kind = "raise" THEN one
             ELSE AnalyzeFrom(p, mk, i + 1, opportunities \o one.value)

analyze_arbitrage(p, mk) == AnalyzeFrom(p, mk, 1, <<>>)

(***************************************************************************)
(* Inputs of a polling cycle.                                              *)
(***************************************************************************)
Market(i, bid, ask, sub) ==
    [ticker |-> <<"M", i>>, yes_bid |-> bid, yes_ask |-> ask, sub |-> sub]

\* the lists of k markets with quotes and subtitles from the given sets
MarketLists(k, Bids, Asks, Subs) ==
    {[i \in 1..k |-> Market(i, f[i][1], f[i][2], f[i][3])] :
        f \in [1..k -> Bids \X Asks \X Subs]}

Listing(ms) == Http(200, Json([t |-> "dict", markets |-> ms]))

Sub100 == Str(<<PriceToBeat, " ", "$", "1", "0", "0">>)
Sub0 == Str(<<PriceToBeat, " ", "$", "0">>)
SubPlain == Str(<<"x">>)
SubExample == Str(<<PriceToBeat, " ", "$", "6", "7", ",", "2", "5", "0", ".", "5", "0">>)

Spots == {None, Num(97), Num(100), Num(102)}
Feeds == {[kind |-> "error"]}
           \cup {[kind |-> "ok", btc |-> b, eth |-> e] : b \in Spots, e \in Spots}

\* answers without a usable listing
Broken == {Transport, Http(500, Garbage), Http(200, EmptyText), Http(200, Garbage),
           Http(200, Json([t |-> "list"]))}

CycleAnswers ==
    Broken \cup {Listing(ms) : ms \in UNION {MarketLists(k,
                     {None, Num(0), Num(40)}, {None, Num(60), Num(100)},
                     {Sub100, Sub0, SubPlain}) : k \in 0..1}}

\* the state when main() is entered
Init ==
    /\ pc = "start"
    /\ feed \in Feeds
    /\ api \in [btc : CycleAnswers, eth : CycleAnswers]
    /\ prices = None /\ markets = None /\ result = NoRet /\ trace = <<>>
    /\ unitOff

Event(name) == [ev |-> name]
HttpEvent(series) == [ev |-> "http", series |-> series]

\* arb_monitor.py 230
MainGetPrices ==
    /\ pc = "start"
    /\ prices' = get_crypto_prices(feed)
    /\ trace' = Append(trace, Event("feed_get"))
    /\ pc' = "prices"
    /\ UNCHANGED <<feed, api, markets, result>>
    /\ UNCHANGED unitVars

\* arb_monitor.py 231-233
MainPriceError ==
    /\ pc = "prices"
    /\ HasError(prices)
    /\ trace' = Append(trace, Event("print_error"))
    /\ result' = Return(None)
    /\ pc' = "done"
    /\ UNCHANGED <<feed, api, prices, markets>>
    /\ UNCHANGED unitVars

\* arb_monitor.py 235 and 43
MainNewClient ==
    /\ pc = "prices"
    /\ ~HasError(prices)
    /\ trace' = Append(trace, Event("client"))
    /\ markets' = EmptyDict
    /\ pc' = "fetch1"
    /\ UNCHANGED <<feed, api, prices, result>>
    /\ UNCHANGED unitVars

\* arb_monitor.py 45-75: one series of get_kalshi_15m_markets
FetchSeries ==
    /\ pc \in {"fetch1", "fetch2"}
    /\ LET coin == IF pc = "fetch1" THEN "btc" ELSE "eth"
       IN  /\ markets' = FetchOne(markets, coin, api[coin])
           /\ trace' = Append(trace, HttpEvent(SeriesOf(coin)))
    /\ pc' = IF pc = "fetch1" THEN "fetch2" ELSE "daily"
    /\ UNCHANGED <<feed, api, prices, result>>
    /\ UNCHANGED unitVars

\* arb_monitor.py 237 and 80-100: two more listings; every failure is caught
\* and nothing of the outcome is read again
MainDaily ==
    /\ pc = "daily"
    /\ trace' = trace \o <<HttpEvent("KXDOGE"), HttpEvent("KXBTC")>>
    /\ pc' = "analyze"
    /\ UNCHANGED <<feed, api, prices, markets, result>>
    /\ UNCHANGED unitVars

\* arb_monitor.py 240: an exception of the analysis leaves main() uncaught
MainAnalyze ==
    /\ pc = "analyze"
    /\ result' = analyze_arbitrage(prices, markets)
    /\ pc' = IF result'.kind = "raise" THEN "raised" ELSE "report"
    /\ UNCHANGED <<feed, api, prices, markets, trace>>
    /\ UNCHANGED unitVars

\* arb_monitor.py 243-251 and 255-259; the text of the report is not modelled
MainReport ==
    /\ pc = "report"
    /\ result' = Return([opportunities |-> result.value,
                         has_opportunities |-> Len(result.value) > 0])
    /\ trace' = Append(trace, Event("report"))
    /\ pc' = "done"
    /\ UNCHANGED <<feed, api, prices, markets>>
    /\ UNCHANGED unitVars

Next ==
    \/ MainGetPrices
    \/ MainPriceError
    \/ MainNewClient
    \/ FetchSeries
    \/ MainDaily
    \/ MainAnalyze
    \/ MainReport

Spec == Init /\ [][Next]_vars

(***************************************************************************)
(* Claims about the polling cycle (specification Spec).                    *)
(***************************************************************************)
AfterFetch(coin) ==
    IF coin = "btc"
    THEN {"fetch2", "daily", "analyze", "report", "raised", "done"}
    ELSE {"daily", "analyze", "report", "raised", "done"}

Analysed == {"report", "raised", "done"}

\* the opportunities the cycle has emitted: none when the analysis raised
Emitted ==
    IF pc = "report" THEN result.value
    ELSE IF pc = "done" /\ result.value # None THEN result.value.opportunities
    ELSE <<>>

EmittedOf(type, coin) ==
    {i \in 1..Len(Emitted) :
        Emitted[i].type = type /\ Emitted[i].coin = UpperCoin(coin)}

\* the fetch of a series failed: no answer, or an error status
Failed(answer) ==
    answer.kind = "transport" \/ (answer.kind = "http" /\ answer.status >= 400)

CountEvents(series) ==
    Cardinality({i \in 1..Len(trace) : trace[i] = HttpEvent(series)})

\* C5: the price feed is fetched before any trading-API call; when the feed
\* fails the cycle prints the error and ends with no report, no client is
\* constructed and no market request is issued.
C5_FeedBeforeMarkets ==
    /\ \A i \in 1..Len(trace) :
          trace[i].ev \in {"client", "http"} =>
              \E j \in 1..(i - 1) : trace[j].ev = "feed_get"
    /\ feed.kind = "error" =>
          /\ pc \in {"start", "prices", "done"}
          /\ \A i \in 1..Len(trace) : trace[i].ev \notin {"client", "http", "report"}
          /\ pc = "done" =>
                /\ trace = <<Event("feed_get"), Event("print_error")>>
                /\ result = Return(None)

C5_Witness ==
    /\ feed.kind = "error"
    /\ pc = "done"
    /\ trace = <<Event("feed_get"), Event("print_error")>>

\* C4: when the fetch of one asset's series fails, the failure is recorded
\* under "<asset>_error", both series are still fetched, and the outcome of the
\* analysis is the one the cycle would have had with no market listed for
\* that asset.
C4_FetchFailureIsolated ==
    \A c \in {"btc", "eth"} :
        (feed.kind = "ok" /\ Failed(api[c])) =>
            LET without == [api EXCEPT ![c] = Listing(<<>>)]
                expected == analyze_arbitrage(get_crypto_prices(feed),
                                              get_kalshi_15m_markets(without))
            IN  /\ pc \in AfterFetch(c) =>
                      /\ ErrorKey(c) \in DOMAIN markets
                      /\ c \notin DOMAIN markets
                /\ pc \in AfterFetch("eth") =>
                      /\ CountEvents("KXBTC15M") = 1
                      /\ CountEvents("KXETH15M") = 1
                /\ pc \in {"report", "raised"} => result = expected
                /\ pc = "done" =>
                      /\ expected.kind = "return"
                      /\ result.value.opportunities = expected.value

C4_Witness ==
    /\ feed.kind = "ok"
    /\ Failed(api.btc)
    /\ pc = "done"
    /\ "btc_error" \in DOMAIN markets
    /\ EmittedOf("BUY_YES", "eth") # {}

\* the asset has a market with a strike, a spot price, and quotes and a strike
\* from which a fair value can be computed at all
Valued(c) ==
    /\ c \in DOMAIN markets
    /\ markets[c].strike # None
    /\ prices[c] # None
    /\ markets[c].strike.n # 0
    /\ IsNum(markets[c].yes_ask)

\* C2: for each asset with a market with a strike and a spot price, BUY_YES is
\* emitted exactly when fair_value > yes_ask + 5, with edge fair_value - yes_ask,
\* and SELL_YES exactly when fair_value < yes_bid - 5, with edge
\* yes_bid - fair_value.
C2_OpportunitiesExact ==
    pc \in Analysed =>
        \A c \in {"btc", "eth"} :
            Valued(c) =>
                LET fv == IntOf(calculate_fair_value(prices[c],
                                                     markets[c].strike, 15).value)
                    ask == IntOf(markets[c].yes_ask)
                    bid == IntOf(markets[c].yes_bid)
                IN  /\ (EmittedOf("BUY_YES", c) # {}) <=> (fv > ask + 5)
                    /\ (EmittedOf("SELL_YES", c) # {}) <=> (fv < bid - 5)
                    /\ \A i \in EmittedOf("BUY_YES", c) : Emitted[i].edge = fv - ask
                    /\ \A i \in EmittedOf("SELL_YES", c) : Emitted[i].edge = bid - fv

\* the listed data of the asset is malformed: a strike of 0 or a quote that is
\* not a number
Malformed(c) ==
    /\ c \in DOMAIN markets
    /\ \/ (markets[c].strike # None /\ markets[c].strike.n = 0)
       \/ ~IsNum(markets[c].yes_ask)

WithoutMalformed ==
    [c \in {k \in DOMAIN markets : ~Malformed(k)} |-> markets[c]]

\* C6: a malformed market for one asset is treated as missing data: the cycle
\* never raises because of it, and the opportunities of the other asset are
\* still computed and reported.
C6_MalformedIsMissingData ==
    (feed.kind = "ok" /\ pc \in {"raised", "done"}) =>
        /\ pc = "done"
        /\ result.value.opportunities
              = analyze_arbitrage(prices, WithoutMalformed).value

(***************************************************************************)
(* The market extraction on longer listings and on enumerated subtitles    *)
(* (specification SpecExtract): the cycle from the first series request    *)
(* on, after a healthy price feed.                                         *)
(***************************************************************************)
SubTokens == {PriceToBeat, " ", "$", "1", "0", ",", "x"}
Subtitles == {Str(s) : s \in SeqsUpTo(SubTokens, 0, MaxSub)} \cup {SubExample, Absent}

ExtractAnswers ==
    {Listing(ms) : ms \in UNION {MarketLists(k,
         {Absent, Num(0), Num(40)}, {Absent, Num(60), Num(100)},
         {Sub100, SubPlain}) : k \in 0..MaxMarkets}}
    \cup {Listing(<<Market(1, Num(40), Num(60), sub)>>) : sub \in Subtitles}

HealthyFeed == [kind |-> "ok", btc |-> Num(102), eth |-> Num(102)]

InitExtract ==
    /\ pc = "fetch1"
    /\ feed = HealthyFeed
    /\ api \in [btc : ExtractAnswers,
                eth : {Listing(<<>>),
                       Listing(<<Market(1, Num(40), Num(60), Sub100)>>)}]
    /\ prices = get_crypto_prices(HealthyFeed)
    /\ markets = EmptyDict
    /\ result = NoRet
    /\ trace = <<Event("feed_get"), Event("client")>>
    /\ unitOff

NextExtract == FetchSeries \/ MainDaily \/ MainAnalyze \/ MainReport

SpecExtract == InitExtract /\ [][NextExtract]_vars

\* the claim's liquidity filter: a side is quotable when the market carries
\* its quote and the quote is inside the book
Quotable(m) ==
    \/ (IsNum(m.yes_bid) /\ m.yes_bid.n > 0)
    \/ (IsNum(m.yes_ask) /\ m.yes_ask.n < 100 * m.yes_ask.d)

FirstQuotable(ms) ==
    LET hits == {i \in 1..Len(ms) : Quotable(ms[i])}
    IN  IF hits = {} THEN 0 ELSE CHOOSE i \in hits : \A j \in hits : i <= j

IsListing(answer) ==
    /\ answer.kind = "http" /\ answer.status = 200
    /\ answer.text.t = "json" /\ answer.text.v.t = "dict"
    /\ "markets" \in DOMAIN answer.text.v

\* C9: the market kept for an asset is the first listed market with
\* yes_bid > 0 or yes_ask < 100; a market carrying neither quote does not
\* pass; when no listed market passes, the asset has no entry and no error
\* marker.
C9_FirstQuotableKept ==
    \A c \in {"btc", "eth"} :
        (pc \in AfterFetch(c) /\ IsListing(api[c])) =>
            LET ms == api[c].text.v.markets
                first == FirstQuotable(ms)
            IN  /\ ErrorKey(c) \notin DOMAIN markets
                /\ IF first = 0 THEN c \notin DOMAIN markets
                   ELSE c \in DOMAIN markets
                           /\ markets[c].ticker = ms[first].ticker

\* the position of the '$' that ends the first "Price to beat: $" marker of
\* the text (blanks between the colon and the '$' allowed), 0 when there is none
RECURSIVE SkipBlanks(_, _)
SkipBlanks(s, i) == IF i <= Len(s) /\ s[i] = " " THEN SkipBlanks(s, i + 1) ELSE i

MarkerEnd(s) ==
    LET ends == {SkipBlanks(s, i + 1) : i \in {j \in 1..Len(s) : s[j] = PriceToBeat}}
        hits == {k \in ends : k <= Len(s) /\ s[k] = "$"}
    IN  IF hits = {} THEN 0 ELSE CHOOSE k \in hits : \A j \in hits : k <= j

\* the longest run of digits, thousands separators and points from position i
RECURSIVE LiteralFrom(_, _)
LiteralFrom(s, i) ==
    IF i <= Len(s) /\ s[i] \in Digits \cup {",", "."}
    THEN <<s[i]>> \o LiteralFrom(s, i + 1)
    ELSE <<>>

\* C10: a subtitle with the marker "Price to beat: $" followed by a numeric
\* literal gives that number as the strike; without the marker the strike is
\* null, nothing is raised, the market entry is recorded and the analysis
\* emits no opportunity for the asset.
C10_StrikeFromMarker ==
    (/\ pc \in AfterFetch("btc")
     /\ IsListing(api.btc)
     /\ Len(api.btc.text.v.markets) = 1
     /\ Quotable(api.btc.text.v.markets[1])
     /\ IsStr(api.btc.text.v.markets[1].sub)) =>
        LET s == api.btc.text.v.markets[1].sub.s
            k == MarkerEnd(s)
            lit == Float(Remove(LiteralFrom(s, k + 1), ","))
        IN  /\ "btc_error" \notin DOMAIN markets
            /\ "btc" \in DOMAIN markets
            /\ (k # 0 /\ lit.kind = "return") =>
                   /\ markets.btc.strike # None
                   /\ RatEq(markets.btc.strike, lit.value)
            /\ k = 0 =>
                   /\ markets.btc.strike = None
                   /\ EmittedOf("BUY_YES", "btc") = {}
                   /\ EmittedOf("SELL_YES", "btc") = {}

(***************************************************************************)
(* The valuation alone (specification SpecFair).                           *)
(***************************************************************************)
FairSpots == {None} \cup {Num(k) : k \in 90..110} \cup {Rat(2001, 20)}
FairStrikes == {None, Num(0), Num(1), Num(95), Num(100), Rat(2001, 20)}

InitFair == cycleOff /\ unitOff

CallFairValue ==
    /\ call = Idle
    /\ \E spot \in FairSpots, strike \in FairStrikes :
           /\ call' = [fn |-> "calculate_fair_value",
                       spot |-> spot, strike |-> strike]
           /\ ret' = calculate_fair_value(spot, strike, 15)
    /\ UNCHANGED <<http, stderr>>
    /\ UNCHANGED cycleVars

NextFair == CallFairValue

SpecFair == InitFair /\ [][NextFair]_vars

\* C3: calculate_fair_value returns null when spot or strike is null, and for
\* every non-null spot and strike an integer in [5, 95], never an exception,
\* which is 50 when spot equals strike.
C3_FairValueInRange ==
    call # Idle =>
        IF call.spot = None \/ call.strike = None
        THEN ret = Return(None)
        ELSE /\ ret.kind = "return"
             /\ ret.value # None
             /\ 5 <= IntOf(ret.value) /\ IntOf(ret.value) <= 95
             /\ RatEq(call.spot, call.strike) => IntOf(ret.value) = 50

(***************************************************************************)
(* Claims about the client (specification SpecClient).                     *)
(***************************************************************************)
\* the order place_order was asked for is one the trading API accepts
ValidOrder(c) ==
    /\ c.side \in {"yes", "no"}
    /\ c.action \in {"buy", "sell"}
    /\ c.count > 0
    /\ c.type = "limit" =>
          /\ c.price # None
          /\ 1 <= IntOf(c.price) /\ IntOf(c.price) <= 99

\* C1: place_order rejects an invalid order (side, action, count, or a limit
\* price outside 1..99) before any HTTP request is sent.
C1_InvalidOrderNotSent ==
    (call # Idle /\ call.fn = "place_order" /\ ~ValidOrder(call)) =>
        /\ http = <<>>
        /\ ret.kind = "raise"

\* the path with everything from its first '?' on removed
BeforeQuery(path) ==
    LET marks == {i \in 1..Len(path) : path[i] = "?"}
    IN  IF marks = {} THEN path
        ELSE SubSeq(path, 1, (CHOOSE i \in marks : \A j \in marks : i <= j) - 1)

Tokens(s) == {s[i] : i \in 1..Len(s)}

\* C7: the signed message of every request is its ACCESS-TIMESTAMP header, the
\* upper-cased method and the path without its query string; paths that differ
\* only in the query sign the same message; the URL keeps the query string.
C7_SignedMessageWithoutQuery ==
    \A i \in 1..Len(http) :
        LET req == http[i]
            signed == req.headers.signature.signed
        IN  /\ signed = <<req.headers.timestamp, Upper(call.method)>>
                           \o BeforeQuery(call.path)
            /\ req.headers.timestamp = ToString(call.now)
            /\ req.url = <<base_url>> \o call.path
            /\ \A other \in Paths, salt \in Salts :
                  BeforeQuery(other) = BeforeQuery(call.path) =>
                      _headers(call.method, other, call.now, salt).signature.signed
                          = signed

C7_Witness ==
    /\ call # Idle
    /\ Len(http) = 1
    /\ call.path = <<"/x", "?", "a=1">>
    /\ "?" \in Tokens(http[1].url)
    /\ "?" \notin Tokens(http[1].headers.signature.signed)

ErrorStatus(status) == 400 <= status /\ status <= 599
Status2xx(status) == 200 <= status /\ status <= 299

\* C8 as amended: a call dispatches at most one HTTP request; an answer whose
\* status is not in 400..599 returns the empty mapping for an empty body and
\* the parsed JSON for a JSON body; an answer with a status in 400..599 never
\* returns, logs status and body to the error stream and raises an error
\* carrying the status, after that single request.
C8_OneRequestPerCall ==
    call # Idle =>
        /\ Len(http) <= 1
        /\ (Len(http) = 1 /\ call.response.kind = "http") =>
              LET status == call.response.status
                  text == call.response.text
              IN  /\ (~ErrorStatus(status) /\ text = EmptyText) =>
                         ret = Return([t |-> "dict"]) /\ stderr = <<>>
                  /\ (~ErrorStatus(status) /\ text.t = "json") =>
                         ret = Return(text.v) /\ stderr = <<>>
                  /\ ErrorStatus(status) =>
                         /\ ret = Raise(HTTPError(status))
                         /\ stderr = <<[status |-> status, text |-> text]>>

C8_Witness ==
    /\ call # Idle
    /\ Len(http) = 1
    /\ call.response.kind = "http"
    /\ call.response.status = 404
    /\ ret = Raise(HTTPError(404))
    /\ Len(stderr) = 1

\* C8 as claimed: a 2xx answer returns the empty mapping or the parsed JSON,
\* and every non-2xx answer never returns a value, is logged and raises.
C8_Non2xxNeverReturns ==
    call # Idle =>
        /\ Len(http) <= 1
        /\ (Len(http) = 1 /\ call.response.kind = "http") =>
              LET status == call.response.status
                  text == call.response.text
              IN  /\ (Status2xx(status) /\ text = EmptyText) =>
                         ret = Return([t |-> "dict"])
                  /\ (Status2xx(status) /\ text.t = "json") =>
                         ret = Return(text.v)
                  /\ ~Status2xx(status) =>
                         /\ ret.kind = "raise"
                         /\ ret.error = HTTPError(status)
                         /\ stderr = <<[status |-> status, text |-> text]>>

====
